---------------------------- MODULE Spec2Model ----------------------------
(***************************************************************************)
(* Functional model of the NPU simulator of src/model/npu.py (Memory,      *)
(* SystolicArray, PPU, Controller) and of its multi-layer driver           *)
(* src/model/npu_wrapper.py (NPUDriver).                                   *)
(*                                                                         *)
(* Python lists are modelled as TLA+ sequences: the word at the zero-based *)
(* address a of a list l is l[a + 1].  Python's indexing and slicing rules *)
(* (negative indices count from the end, slices are truncated to the list, *)
(* an index outside [-len, len) raises IndexError) are modelled by PyIndex *)
(* and PySlice.  A float scale is modelled as an exact fraction num/den;   *)
(* the magnitudes explored are far below 2^53, where the float quotient    *)
(* rounds to the same integer as the exact one.  The debug dumps that the  *)
(* controller writes under ./hex are modelled by the variable dump (the    *)
(* directory is assumed to exist).                                         *)
(***************************************************************************)
EXTENDS Integers, Sequences, FiniteSets, TLC

VARIABLES
    config,    \* NPUConfig: array_size, data_width, mem_depth, max_val
    mem,       \* Memory.mem
    weights,   \* SystolicArray.weights, a sequence of rows
    ctrl,      \* the activation of Controller.execute_program
    dump,      \* the three tensors dumped by the last MATMUL
    call,      \* the last direct call of a component method and its outcome
    driver     \* the activation of NPUDriver.run_inference

vars == <<config, mem, weights, ctrl, dump, call, driver>>

(***************************************************************************)
(* Bounds of the explored inputs.                                          *)
(***************************************************************************)
MaxN == 2          \* array_size ranges over 1..MaxN
MaxW == 3          \* data_width ranges over 2..MaxW
MaxVal == 3        \* magnitude of the words loaded into memory
MaxAcc == 9        \* magnitude of the accumulators handed to the PPU directly
MaxZP == 2         \* magnitude of zero_point
MaxScaleNum == 3   \* magnitude of the numerator of a scale
MaxProgLen == 3    \* length of a program
MaxLayers == 2     \* layers of a network
MaxDepth == 3      \* mem_depth of the memory accessed directly
MaxBlock == 2      \* length of a block read, written or loaded directly
FairProgLen == 2   \* length of a program run under fairness
MaxRuns == 3       \* calls of execute_program one after the other

(***************************************************************************)
(* Python helpers.                                                         *)
(***************************************************************************)
RECURSIVE Pow2(_)
Pow2(n) == IF n = 0 THEN 1 ELSE 2 * Pow2(n - 1)

Min(a, b) == IF a < b THEN a ELSE b

Max(a, b) == IF a > b THEN a ELSE b

\* The position a Python list of length len gives the index i: i itself, or
\* len + i for a negative i.  The index is valid iff the result is in 0..len-1.
PyIndex(len, i) == IF i < 0 THEN i + len ELSE i

PyIndexOk(len, i) == PyIndex(len, i) >= 0 /\ PyIndex(len, i) < len

\* A bound of a Python slice, clamped to 0..len.
PyBound(len, i) == IF i < 0 THEN Max(i + len, 0) ELSE Min(i, len)

\* l[start:stop]
PySlice(l, start, stop) ==
    LET lo == PyBound(Len(l), start)
        hi == PyBound(Len(l), stop)
    IN  IF lo < hi THEN SubSeq(l, lo + 1, hi) ELSE <<>>

\* round(n / d) for a float n / d, d # 0: ties go to the even integer.
RoundHalfEven(n, d) ==
    LET nn == IF d < 0 THEN -n ELSE n
        dd == IF d < 0 THEN -d ELSE d
        f  == nn \div dd
        r  == nn % dd
    IN  IF 2 * r < dd THEN f
        ELSE IF 2 * r > dd THEN f + 1
        ELSE IF f % 2 = 0 THEN f ELSE f + 1

(***************************************************************************)
(* NPUConfig                                                               *)
(***************************************************************************)
\* A configuration whose max_val is 2^data_width.
NPUConfigOffByOne(array_size, data_width, mem_depth) ==
    [array_size |-> array_size, data_width |-> data_width,
     mem_depth |-> mem_depth, max_val |-> Pow2(data_width)]

NPUConfig(array_size, data_width, mem_depth) ==
    [array_size |-> array_size, data_width |-> data_width,
     mem_depth |-> mem_depth, max_val |-> Pow2(data_width) - 1]

(***************************************************************************)
(* Memory                                                                  *)
(***************************************************************************)
MemoryInit(cfg) == [i \in 1..cfg.mem_depth |-> 0]

\* f"{x:02X}": the hexadecimal digits of |x|, most significant first, at
\* least two characters wide counting the sign.
RECURSIVE HexDigits(_)
HexDigits(n) == IF n < 16 THEN <<n>> ELSE Append(HexDigits(n \div 16), n % 16)

Format02X(x) ==
    IF x < 0 THEN [neg |-> TRUE, digits |-> HexDigits(-x)]
    ELSE [neg |-> FALSE,
          digits |-> IF x < 16 THEN <<0, x>> ELSE HexDigits(x)]

\* int(token, 16)
RECURSIVE HexValue(_)
HexValue(ds) ==
    IF ds = <<>> THEN 0
    ELSE 16 * HexValue(SubSeq(ds, 1, Len(ds) - 1)) + ds[Len(ds)]

ParseHex(token) ==
    IF token.neg THEN -HexValue(token.digits) ELSE HexValue(token.digits)

\* A load that checks the whole block against the end of memory before it
\* writes the first word.
RECURSIVE LoadLoopAtomic(_, _, _, _)
LoadLoopAtomic(m, start_addr, tokens, i) ==
    IF i = 0 /\ start_addr >= 0 /\ start_addr + Len(tokens) > Len(m)
    THEN [mem |-> m, error |-> "ValueError"]
    ELSE IF i >= Len(tokens) THEN [mem |-> m, error |-> "None"]
    ELSE IF start_addr + i < Len(m)
         THEN IF PyIndexOk(Len(m), start_addr + i)
              THEN LoadLoopAtomic([m EXCEPT ![PyIndex(Len(m), start_addr + i) + 1] =
                                      ParseHex(tokens[i + 1])],
                                  start_addr, tokens, i + 1)
              ELSE [mem |-> m, error |-> "IndexError"]
         ELSE [mem |-> m, error |-> "ValueError"]

\* Memory.load_hex_string from token i (zero-based) on.  The result is the
\* memory left behind and the exception raised, if any.
RECURSIVE LoadLoop(_, _, _, _)
LoadLoop(m, start_addr, tokens, i) ==
    IF i >= Len(tokens) THEN [mem |-> m, error |-> "None"]
    ELSE IF start_addr + i < Len(m)
         THEN IF PyIndexOk(Len(m), start_addr + i)
              THEN LoadLoop([m EXCEPT ![PyIndex(Len(m), start_addr + i) + 1] =
                                ParseHex(tokens[i + 1])],
                            start_addr, tokens, i + 1)
              ELSE [mem |-> m, error |-> "IndexError"]
         ELSE [mem |-> m, error |-> "ValueError"]

load_hex_string(m, start_addr, tokens) == LoadLoop(m, start_addr, tokens, 0)

read_block(m, addr, size) == PySlice(m, addr, addr + size)

\* A write that stores a negative value as 0.
RECURSIVE WriteLoopUnsigned(_, _, _, _)
WriteLoopUnsigned(m, addr, data, i) ==
    IF i >= Len(data) THEN [mem |-> m, error |-> "None"]
    ELSE IF PyIndexOk(Len(m), addr + i)
         THEN WriteLoopUnsigned([m EXCEPT ![PyIndex(Len(m), addr + i) + 1] =
                                     Max(0, data[i + 1])],
                                addr, data, i + 1)
         ELSE [mem |-> m, error |-> "IndexError"]

\* Memory.write_block from element i (zero-based) on.
RECURSIVE WriteLoop(_, _, _, _)
WriteLoop(m, addr, data, i) ==
    IF i >= Len(data) THEN [mem |-> m, error |-> "None"]
    ELSE IF PyIndexOk(Len(m), addr + i)
         THEN WriteLoop([m EXCEPT ![PyIndex(Len(m), addr + i) + 1] = data[i + 1]],
                        addr, data, i + 1)
         ELSE [mem |-> m, error |-> "IndexError"]

write_block(m, addr, data) == WriteLoop(m, addr, data, 0)

(***************************************************************************)
(* SystolicArray                                                           *)
(***************************************************************************)
\* An array constructed with the identity as its weight matrix.
ArrayInitIdentity(cfg) ==
    [r \in 1..cfg.array_size |->
        [c \in 1..cfg.array_size |-> IF r = c THEN 1 ELSE 0]]

ArrayInit(cfg) == [r \in 1..cfg.array_size |-> [c \in 1..cfg.array_size |-> 0]]

\* A load that adds the new weights to the ones the array holds.
load_weightsAccumulates(w, n, weight_matrix_flat) ==
    IF Len(weight_matrix_flat) # n * n
    THEN [weights |-> w, error |-> "ValueError"]
    ELSE [weights |-> [r \in 1..n |-> [c \in 1..n |->
                          w[r][c] + weight_matrix_flat[(r - 1) * n + (c - 1) + 1]]],
          error |-> "None"]

\* A load that only rejects a sequence that is too short and takes the first
\* n * n elements of a longer one.
load_weightsPrefix(w, n, weight_matrix_flat) ==
    IF Len(weight_matrix_flat) < n * n
    THEN [weights |-> w, error |-> "ValueError"]
    ELSE [weights |-> [r \in 1..n |-> [c \in 1..n |->
                          weight_matrix_flat[(r - 1) * n + (c - 1) + 1]]],
          error |-> "None"]

\* SystolicArray.load_weights: the new register matrix, or the old one and
\* ValueError when the length is not n * n.
load_weights(w, n, weight_matrix_flat) ==
    IF Len(weight_matrix_flat) # n * n
    THEN [weights |-> w, error |-> "ValueError"]
    ELSE [weights |-> [r \in 1..n |-> [c \in 1..n |->
                          weight_matrix_flat[(r - 1) * n + (c - 1) + 1]]],
          error |-> "None"]

\* An accumulation loop that reads the weights transposed.
RECURSIVE DotLoopTransposed(_, _, _, _, _, _, _)
DotLoopTransposed(matrix_a, w, n, i, j, k, acc) ==
    IF k >= n THEN acc
    ELSE DotLoopTransposed(matrix_a, w, n, i, j, k + 1,
                           acc + matrix_a[i + 1][k + 1] * w[j + 1][k + 1])

\* The accumulation loop over k = from..n-1 of run_matmul.
RECURSIVE DotLoop(_, _, _, _, _, _, _)
DotLoop(matrix_a, w, n, i, j, k, acc) ==
    IF k >= n THEN acc
    ELSE DotLoop(matrix_a, w, n, i, j, k + 1,
                 acc + matrix_a[i + 1][k + 1] * w[k + 1][j + 1])

\* [val for row in matrix_c for val in row]
RECURSIVE Flatten(_)
Flatten(rows) ==
    IF rows = <<>> THEN <<>> ELSE Head(rows) \o Flatten(Tail(rows))

\* A product whose accumulators cannot go below zero.
run_matmulUnsigned(w, n, input_matrix_flat) ==
    IF Len(input_matrix_flat) # n * n
    THEN [out |-> <<>>, error |-> "ValueError"]
    ELSE LET matrix_a == [i \in 1..n |->
                            PySlice(input_matrix_flat, (i - 1) * n, i * n)]
             matrix_c == [i \in 1..n |-> [j \in 1..n |->
                            Max(0, DotLoop(matrix_a, w, n, i - 1, j - 1, 0, 0))]]
         IN  [out |-> Flatten(matrix_c), error |-> "None"]

run_matmul(w, n, input_matrix_flat) ==
    IF Len(input_matrix_flat) # n * n
    THEN [out |-> <<>>, error |-> "ValueError"]
    ELSE LET matrix_a == [i \in 1..n |->
                            PySlice(input_matrix_flat, (i - 1) * n, i * n)]
             matrix_c == [i \in 1..n |-> [j \in 1..n |->
                            DotLoop(matrix_a, w, n, i - 1, j - 1, 0, 0)]]
         IN  [out |-> Flatten(matrix_c), error |-> "None"]

(***************************************************************************)
(* PPU                                                                     *)
(***************************************************************************)
\* Stage 1 of PPU.process for one element, activation "RELU".
Activate(x) == IF x > 0 THEN x ELSE 0

\* A quantization that takes the scaled value to be 0 when scale is 0.
RequantizeDropsValue(val_act, scale, zero_point) ==
    IF scale.num # 0
    THEN RoundHalfEven(val_act * scale.den + zero_point * scale.num, scale.num)
    ELSE zero_point

\* Stage 2 of PPU.process for one activated element, before saturation:
\* round(val_act / scale + zero_point), the division skipped when scale is 0.
\* scale is the fraction scale.num / scale.den.
Requantize(val_act, scale, zero_point) ==
    IF scale.num # 0
    THEN RoundHalfEven(val_act * scale.den + zero_point * scale.num, scale.num)
    ELSE val_act + zero_point

\* A saturation that forgets the upper limit.
SaturateLowOnly(val_q, max_val) == Max(0, val_q)

\* A truncation to the data width instead of a saturation.
SaturateWraps(val_q, max_val) == val_q % (max_val + 1)

\* Saturation: max(0, min(val_q, max_val)).
Saturate(val_q, max_val) == Max(0, Min(val_q, max_val))

Quantize(val_act, scale, zero_point, max_val) ==
    Saturate(Requantize(val_act, scale, zero_point), max_val)

process(data, scale, zero_point, max_val) ==
    [activated |-> [i \in 1..Len(data) |-> Activate(data[i])],
     quantized |-> [i \in 1..Len(data) |->
                      Quantize(Activate(data[i]), scale, zero_point, max_val)]]

(***************************************************************************)
(* Controller                                                              *)
(***************************************************************************)
\* instr.get(key, default)
Get(instr, key, default) == IF key \in DOMAIN instr THEN instr[key] ELSE default

One == [num |-> 1, den |-> 1]    \* the float 1.0

NoDump == [raw |-> <<>>, activated |-> <<>>, final |-> <<>>]

\* The LOAD_WEIGHTS branch of execute_program.
ExecLoadWeights(instr, cfg, m, w, d) ==
    LET size == cfg.array_size * cfg.array_size
        data == read_block(m, instr.addr, size)
        lw   == load_weights(w, cfg.array_size, data)
    IN  [mem |-> m, weights |-> lw.weights, dump |-> d, error |-> lw.error]

\* A MATMUL that writes the activated tensor back instead of the quantized
\* one.
ExecMatmulStoresActivated(instr, cfg, m, w, d) ==
    LET scale      == Get(instr, "scale", One)
        zero_point == Get(instr, "zero_point", 0)
        size       == cfg.array_size * cfg.array_size
        inputs     == read_block(m, instr.src, size)
        mm         == run_matmul(w, cfg.array_size, inputs)
        pp         == process(mm.out, scale, zero_point, cfg.max_val)
        wr         == write_block(m, instr.dst, pp.activated)
    IN  IF mm.error # "None"
        THEN [mem |-> m, weights |-> w, dump |-> d, error |-> mm.error]
        ELSE [mem |-> wr.mem, weights |-> w,
              dump |-> [raw |-> mm.out, activated |-> pp.activated,
                        final |-> pp.quantized],
              error |-> wr.error]

\* A MATMUL whose default scale is 0.5.
ExecMatmulDefaultHalf(instr, cfg, m, w, d) ==
    LET scale      == Get(instr, "scale", [num |-> 1, den |-> 2])
        zero_point == Get(instr, "zero_point", 0)
        size       == cfg.array_size * cfg.array_size
        inputs     == read_block(m, instr.src, size)
        mm         == run_matmul(w, cfg.array_size, inputs)
        pp         == process(mm.out, scale, zero_point, cfg.max_val)
        wr         == write_block(m, instr.dst, pp.quantized)
    IN  IF mm.error # "None"
        THEN [mem |-> m, weights |-> w, dump |-> d, error |-> mm.error]
        ELSE [mem |-> wr.mem, weights |-> w,
              dump |-> [raw |-> mm.out, activated |-> pp.activated,
                        final |-> pp.quantized],
              error |-> wr.error]

\* A MATMUL after which the array holds whatever the block at address 0 of
\* memory holds: weights that are a view of memory, not a copy.
ExecMatmulReloadsWeights(instr, cfg, m, w, d) ==
    LET scale      == Get(instr, "scale", One)
        zero_point == Get(instr, "zero_point", 0)
        size       == cfg.array_size * cfg.array_size
        inputs     == read_block(m, instr.src, size)
        mm         == run_matmul(w, cfg.array_size, inputs)
        pp         == process(mm.out, scale, zero_point, cfg.max_val)
        wr         == write_block(m, instr.dst, pp.quantized)
    IN  IF mm.error # "None"
        THEN [mem |-> m, weights |-> w, dump |-> d, error |-> mm.error]
        ELSE [mem |-> wr.mem,
              weights |-> load_weights(w, cfg.array_size,
                                       read_block(wr.mem, 0, size)).weights,
              dump |-> [raw |-> mm.out, activated |-> pp.activated,
                        final |-> pp.quantized],
              error |-> wr.error]

\* A MATMUL that works in place from element i (zero-based) on: each output
\* element is computed from the memory as the elements before it left it.
RECURSIVE InPlaceLoop(_, _, _, _, _)
InPlaceLoop(instr, cfg, m, w, i) ==
    LET size   == cfg.array_size * cfg.array_size
        inputs == read_block(m, instr.src, size)
        mm     == run_matmul(w, cfg.array_size, inputs)
        pp     == process(mm.out, Get(instr, "scale", One),
                          Get(instr, "zero_point", 0), cfg.max_val)
    IN  IF i >= size \/ mm.error # "None" THEN m
        ELSE InPlaceLoop(instr, cfg,
                         [m EXCEPT ![PyIndex(Len(m), instr.dst + i) + 1] =
                              pp.quantized[i + 1]],
                         w, i + 1)

ExecMatmulInPlace(instr, cfg, m, w, d) ==
    LET scale      == Get(instr, "scale", One)
        zero_point == Get(instr, "zero_point", 0)
        size       == cfg.array_size * cfg.array_size
        inputs     == read_block(m, instr.src, size)
        mm         == run_matmul(w, cfg.array_size, inputs)
        pp         == process(mm.out, scale, zero_point, cfg.max_val)
        wr         == write_block(m, instr.dst, pp.quantized)
    IN  IF mm.error # "None"
        THEN [mem |-> m, weights |-> w, dump |-> d, error |-> mm.error]
        ELSE [mem |-> IF wr.error = "None"
                      THEN InPlaceLoop(instr, cfg, m, w, 0) ELSE wr.mem,
              weights |-> w,
              dump |-> [raw |-> mm.out, activated |-> pp.activated,
                        final |-> pp.quantized],
              error |-> wr.error]

\* The MATMUL branch of execute_program.
ExecMatmul(instr, cfg, m, w, d) ==
    LET scale      == Get(instr, "scale", One)
        zero_point == Get(instr, "zero_point", 0)
        size       == cfg.array_size * cfg.array_size
        inputs     == read_block(m, instr.src, size)
        mm         == run_matmul(w, cfg.array_size, inputs)
        pp         == process(mm.out, scale, zero_point, cfg.max_val)
        wr         == write_block(m, instr.dst, pp.quantized)
    IN  IF mm.error # "None"
        THEN [mem |-> m, weights |-> w, dump |-> d, error |-> mm.error]
        ELSE [mem |-> wr.mem, weights |-> w,
              dump |-> [raw |-> mm.out, activated |-> pp.activated,
                        final |-> pp.quantized],
              error |-> wr.error]

\* The arguments of the exception an instruction raises on the memory m:
\* the ValueError of load_weights, the ValueError of run_matmul or the
\* IndexError of the list assignment of write_block.
ExceptionArgs(instr, cfg, m) ==
    LET size == cfg.array_size * cfg.array_size
    IN  IF instr.op = "LOAD_WEIGHTS"
        THEN <<"Weight mismatch: Expected, got", size,
               Len(read_block(m, instr.addr, size))>>
        ELSE IF Len(read_block(m, instr.src, size)) # size
        THEN <<"Input dimensions mismatch">>
        ELSE <<"list assignment index out of range">>

\* One iteration of the loop of execute_program on an instruction that is
\* not HALT: an opcode that is neither LOAD_WEIGHTS nor MATMUL matches no
\* branch and the iteration does nothing.
ExecInstr(instr, cfg, m, w, d) ==
    IF instr.op = "LOAD_WEIGHTS" THEN ExecLoadWeights(instr, cfg, m, w, d)
    ELSE IF instr.op = "MATMUL" THEN ExecMatmul(instr, cfg, m, w, d)
    ELSE [mem |-> m, weights |-> w, dump |-> d, error |-> "None"]

\* execute_program as a whole, from instruction pc (zero-based) on: the
\* state it leaves and the exception it raises, if any.
RECURSIVE RunFrom(_, _, _, _, _, _)
RunFrom(program, pc, cfg, m, w, d) ==
    IF pc >= Len(program) \/ program[pc + 1].op = "HALT"
    THEN [mem |-> m, weights |-> w, dump |-> d, error |-> "None"]
    ELSE LET r == ExecInstr(program[pc + 1], cfg, m, w, d)
         IN  IF r.error # "None" THEN r
             ELSE RunFrom(program, pc + 1, cfg, r.mem, r.weights, r.dump)

execute_program(program, cfg, m, w, d) == RunFrom(program, 0, cfg, m, w, d)

(***************************************************************************)
(* Inputs explored.                                                        *)
(***************************************************************************)
Vals == (-MaxVal)..MaxVal

\* The flat n x n matrix c * Identity.
ScaledIdentity(c, n) ==
    [i \in 1..(n * n) |-> IF (i - 1) \div n = (i - 1) % n THEN c ELSE 0]

\* Integer sequences of length len: arithmetic progressions and sequences
\* with a single non-zero element.
Vectors(len) ==
    {[i \in 1..len |-> a + b * (i - 1)] : a \in Vals, b \in {-1, 0, 1}}
    \cup {[i \in 1..len |-> IF i = p THEN v ELSE 0] :
              p \in 1..len, v \in {-1, 1, MaxVal}}

\* The data loaded into memory before a program runs: weights at address 0
\* and an input block, with negative words, right after them.
CtrlLoads(n) ==
    {[addr |-> 0, data |-> [i \in 1..(n * n) |-> i]],
     [addr |-> n * n, data |-> [i \in 1..(n * n) |-> MaxVal - i]]}

\* A memory just deep enough for three blocks and half a fourth.
MemDepthFor(n) == 3 * n * n + (n * n) \div 2

CtrlConfigs == {NPUConfig(n, MaxW, MemDepthFor(n)) : n \in 1..MaxN}

Half == [num |-> 1, den |-> 2]   \* the float 0.5

Two == [num |-> 2, den |-> 1]    \* the float 2.0

Zero == [num |-> 0, den |-> 1]   \* the float 0.0

MinusOne == [num |-> -1, den |-> 1]   \* the float -1.0

\* The instructions a program is made of, for a configuration: block
\* addresses inside memory, the block at 3 * N^2 that crosses the end of
\* memory (or starts at it, for N = 1) and a negative one; the opcode NOP
\* is not an opcode of the controller.
Instructions(cfg) ==
    LET b == cfg.array_size * cfg.array_size
    IN  {[op |-> "LOAD_WEIGHTS", addr |-> a] : a \in {0, 3 * b}}
        \cup {[op |-> "MATMUL", src |-> b, dst |-> 2 * b],
              [op |-> "MATMUL", src |-> b, dst |-> 0, scale |-> Half,
               zero_point |-> -1],
              [op |-> "MATMUL", src |-> b, dst |-> 2 * b, scale |-> MinusOne,
               zero_point |-> 1],
              [op |-> "MATMUL", src |-> b, dst |-> 3 * b, scale |-> Half,
               zero_point |-> 1],
              [op |-> "MATMUL", src |-> -(b + 1), dst |-> 2 * b,
               scale |-> Zero, zero_point |-> 0]}
        \cup {[op |-> "HALT"], [op |-> "NOP"]}

RECURSIVE SeqsUpTo(_, _)
SeqsUpTo(S, n) ==
    IF n = 0 THEN {<<>>}
    ELSE LET shorter == SeqsUpTo(S, n - 1)
         IN  shorter \cup {Append(q, x) : q \in shorter, x \in S}

Programs(cfg) == SeqsUpTo(Instructions(cfg), MaxProgLen)

(***************************************************************************)
(* State machine of the memory and the controller.                         *)
(***************************************************************************)
NoCall == [op |-> "none"]

NoDriver == [status |-> "Idle"]

CtrlIdle(m, w) ==
    [status |-> "Idle", program |-> <<>>, pc |-> 0, error |-> "None",
     executed |-> <<>>, mem0 |-> m, weights0 |-> w, memPre |-> m]

Init ==
    /\ config \in CtrlConfigs
    /\ mem = MemoryInit(config)
    /\ weights = ArrayInit(config)
    /\ ctrl = CtrlIdle(mem, weights)
    /\ dump = NoDump
    /\ call = NoCall
    /\ driver = NoDriver

\* NPUDriver._load_data_to_ram: the data formatted as hexadecimal tokens and
\* loaded by Memory.load_hex_string.
load_data_to_ram(m, addr, data_list) ==
    load_hex_string(m, addr, [i \in 1..Len(data_list) |-> Format02X(data_list[i])])

\* Data is loaded into memory before the program runs.
LoadData ==
    /\ ctrl.status = "Idle"
    /\ \E ld \in CtrlLoads(config.array_size) :
          LET r == load_data_to_ram(mem, ld.addr, ld.data)
          IN  mem' = r.mem
    /\ UNCHANGED <<config, weights, ctrl, dump, call, driver>>

\* The call of execute_program(program).
ExecuteProgram ==
    /\ ctrl.status = "Idle"
    /\ \E program \in Programs(config) :
          ctrl' = [ctrl EXCEPT !.status = "Running", !.program = program,
                               !.pc = 0, !.mem0 = mem, !.weights0 = weights,
                               !.memPre = mem]
    /\ UNCHANGED <<config, mem, weights, dump, call, driver>>

Fetching == ctrl.status = "Running" /\ ctrl.pc < Len(ctrl.program)

\* A loop that records the exception of an instruction and goes on to the
\* next one.
AfterInstrContinues(r) ==
    [ctrl EXCEPT !.executed = Append(@, ctrl.pc),
                 !.memPre = mem,
                 !.pc = @ + 1,
                 !.error = r.error]

\* The state of the activation after the instruction at pc ran with result r.
AfterInstr(r) ==
    [ctrl EXCEPT !.executed = Append(@, ctrl.pc),
                 !.memPre = mem,
                 !.pc = IF r.error = "None" THEN @ + 1 ELSE @,
                 !.status = IF r.error = "None" THEN @ ELSE "Faulted",
                 !.error = r.error]

\* One iteration of the loop of execute_program on the instruction at pc.
StepInstr ==
    \E r \in {ExecInstr(ctrl.program[ctrl.pc + 1], config, mem, weights, dump)} :
        /\ mem' = r.mem
        /\ weights' = r.weights
        /\ dump' = r.dump
        /\ ctrl' = AfterInstr(r)
        /\ UNCHANGED <<config, call, driver>>

StepLoadWeights ==
    /\ Fetching
    /\ ctrl.program[ctrl.pc + 1].op = "LOAD_WEIGHTS"
    /\ StepInstr

StepMatmul ==
    /\ Fetching
    /\ ctrl.program[ctrl.pc + 1].op = "MATMUL"
    /\ StepInstr

\* An opcode that matches no branch of execute_program.
StepOther ==
    /\ Fetching
    /\ ctrl.program[ctrl.pc + 1].op \notin {"LOAD_WEIGHTS", "MATMUL", "HALT"}
    /\ StepInstr

\* A HALT that does not leave the loop.
StepHaltContinues ==
    /\ Fetching
    /\ ctrl.program[ctrl.pc + 1].op = "HALT"
    /\ ctrl' = [ctrl EXCEPT !.pc = @ + 1,
                            !.executed = Append(@, ctrl.pc), !.memPre = mem]
    /\ UNCHANGED <<config, mem, weights, dump, call, driver>>

\* HALT: break.
StepHalt ==
    /\ Fetching
    /\ ctrl.program[ctrl.pc + 1].op = "HALT"
    /\ ctrl' = [ctrl EXCEPT !.status = "Halted",
                            !.executed = Append(@, ctrl.pc), !.memPre = mem]
    /\ UNCHANGED <<config, mem, weights, dump, call, driver>>

\* A loop that does not end at the end of the instruction stream.
StepEndStays ==
    /\ ctrl.status = "Running"
    /\ ctrl.pc >= Len(ctrl.program)
    /\ UNCHANGED vars

\* The end of the instruction stream: the loop ends and the call returns.
StepEnd ==
    /\ ctrl.status = "Running"
    /\ ctrl.pc >= Len(ctrl.program)
    /\ ctrl' = [ctrl EXCEPT !.status = "Halted"]
    /\ UNCHANGED <<config, mem, weights, dump, call, driver>>

Next ==
    \/ LoadData
    \/ ExecuteProgram
    \/ StepLoadWeights
    \/ StepMatmul
    \/ StepOther
    \/ StepHalt
    \/ StepEnd

Spec == Init /\ [][Next]_vars

\* A step of the loop of execute_program.
Step == StepLoadWeights \/ StepMatmul \/ StepOther \/ StepHalt \/ StepEnd

\* The controller of a 1 x 1 array before any data is loaded.
InitFair ==
    /\ config = NPUConfig(1, MaxW, MemDepthFor(1))
    /\ mem = MemoryInit(config)
    /\ weights = ArrayInit(config)
    /\ ctrl = CtrlIdle(mem, weights)
    /\ dump = NoDump
    /\ call = NoCall
    /\ driver = NoDriver

\* execute_program is sequential code: once called it keeps taking the next
\* step of its loop until it returns or raises.
\* The call of execute_program(program) with a program of at most
\* FairProgLen instructions.
ExecuteShortProgram ==
    /\ ctrl.status = "Idle"
    /\ \E program \in SeqsUpTo(Instructions(config), FairProgLen) :
          ctrl' = [ctrl EXCEPT !.status = "Running", !.program = program,
                               !.pc = 0, !.mem0 = mem, !.weights0 = weights,
                               !.memPre = mem]
    /\ UNCHANGED <<config, mem, weights, dump, call, driver>>

NextFair ==
    \/ ExecuteShortProgram
    \/ StepLoadWeights
    \/ StepMatmul
    \/ StepOther
    \/ StepHalt
    \/ StepEnd

FairSpec == InitFair /\ [][NextFair]_vars /\ WF_vars(Step)

(***************************************************************************)
(* Direct calls of PPU.process.                                            *)
(***************************************************************************)
\* The floats p, p/2 for |p| <= MaxScaleNum.
Scales ==
    {sc \in [num : (-MaxScaleNum)..MaxScaleNum, den : {1, 2}] :
        sc.den = 1 \/ sc.num % 2 = 1}

ZeroPoints == (-MaxZP)..MaxZP

Accumulators == (-MaxAcc)..MaxAcc

PPUData == {<<x>> : x \in Accumulators}
           \cup {<<x, y>> : x \in Accumulators, y \in {-1, 0, MaxAcc}}

\* NPUConfig accepts any arguments: besides the configurations of width
\* 2..MaxW, one with N = 0, one with W = 0 and one with D < N^2.
PPUConfigs ==
    {NPUConfig(1, w, 1) : w \in 2..MaxW}
    \cup {NPUConfig(0, MaxW, 1), NPUConfig(1, 0, 1), NPUConfig(2, MaxW, 1)}

InitPPU ==
    /\ config \in PPUConfigs
    /\ mem = MemoryInit(config)
    /\ weights = ArrayInit(config)
    /\ ctrl = CtrlIdle(mem, weights)
    /\ dump = NoDump
    /\ call = NoCall
    /\ driver = NoDriver

CallProcess ==
    /\ call.op = "none"
    /\ \E data \in PPUData, scale \in Scales, zero_point \in ZeroPoints :
          call' = [op |-> "process", data |-> data, scale |-> scale,
                   zero_point |-> zero_point,
                   result |-> process(data, scale, zero_point, config.max_val)]
    /\ UNCHANGED <<config, mem, weights, ctrl, dump, driver>>

NextPPU == CallProcess

SpecPPU == InitPPU /\ [][NextPPU]_vars

(***************************************************************************)
(* Direct calls of SystolicArray.load_weights and run_matmul.              *)
(***************************************************************************)
ArrayConfigs == {NPUConfig(n, MaxW, n * n) : n \in 1..MaxN}

InitArray ==
    /\ config \in ArrayConfigs
    /\ mem = MemoryInit(config)
    /\ weights = ArrayInit(config)
    /\ ctrl = CtrlIdle(mem, weights)
    /\ dump = NoDump
    /\ call = NoCall
    /\ driver = NoDriver

\* A sequence of length len whose odd positions are above 2^MaxW - 1 and
\* whose even positions are negative.
OutOfRangeVector(len) ==
    [i \in 1..len |-> IF i % 2 = 1 THEN Pow2(MaxW) + i ELSE -i]

\* The sequences handed to the array: of length N^2, one element short and
\* one element long.
ArrayVectors(n) ==
    Vectors(n * n) \cup {ScaledIdentity(1, n), OutOfRangeVector(n * n)}
    \cup {[i \in 1..len |-> i] : len \in {n * n - 1, n * n + 1}}

CallLoadWeights ==
    /\ \E flat \in ArrayVectors(config.array_size) :
          LET r == load_weights(weights, config.array_size, flat)
          IN  /\ weights' = r.weights
              /\ call' = [op |-> "load_weights", arg |-> flat,
                          error |-> r.error]
    /\ UNCHANGED <<config, mem, ctrl, dump, driver>>

CallRunMatmul ==
    /\ \E input \in ArrayVectors(config.array_size) :
          LET r == run_matmul(weights, config.array_size, input)
          IN  call' = [op |-> "run_matmul", arg |-> input, out |-> r.out,
                       error |-> r.error]
    /\ UNCHANGED <<config, mem, weights, ctrl, dump, driver>>

NextArray == CallLoadWeights \/ CallRunMatmul

SpecArray == InitArray /\ [][NextArray]_vars

(***************************************************************************)
(* Direct calls of Memory.load_hex_string (through the hexadecimal         *)
(* formatting of _load_data_to_ram), read_block and write_block.           *)
(***************************************************************************)
MemConfigs == {NPUConfig(1, MaxW, MaxDepth)}

InitMemory ==
    /\ config \in MemConfigs
    /\ mem = MemoryInit(config)
    /\ weights = ArrayInit(config)
    /\ ctrl = CtrlIdle(mem, weights)
    /\ dump = NoDump
    /\ call = NoCall
    /\ driver = NoDriver

\* Start addresses below, at both ends of, and above a memory of depth d.
MemAddrs(d) == {-(d + 1), -1, 0, 1, d - 1, d, d + 1}

\* Value sequences that alternate between 2^MaxW, which is above the
\* largest W-bit value, and -1.
MemData ==
    {[i \in 1..len |-> IF i % 2 = first THEN Pow2(MaxW) ELSE -1] :
        len \in 0..MaxBlock, first \in {0, 1}}

CallLoad ==
    /\ \E addr \in MemAddrs(config.mem_depth), data \in MemData :
          LET r == load_data_to_ram(mem, addr, data)
          IN  /\ mem' = r.mem
              /\ call' = [op |-> "load", addr |-> addr, data |-> data,
                          error |-> r.error, memPre |-> mem]
    /\ UNCHANGED <<config, weights, ctrl, dump, driver>>

CallReadBlock ==
    /\ \E addr \in MemAddrs(config.mem_depth), size \in 0..MaxBlock :
          call' = [op |-> "read_block", addr |-> addr, size |-> size,
                   out |-> read_block(mem, addr, size), error |-> "None",
                   memPre |-> mem]
    /\ UNCHANGED <<config, mem, weights, ctrl, dump, driver>>

CallWriteBlock ==
    /\ \E addr \in MemAddrs(config.mem_depth), data \in MemData :
          LET r == write_block(mem, addr, data)
          IN  /\ mem' = r.mem
              /\ call' = [op |-> "write_block", addr |-> addr, data |-> data,
                          error |-> r.error, memPre |-> mem]
    /\ UNCHANGED <<config, weights, ctrl, dump, driver>>

NextMemory == CallLoad \/ CallReadBlock \/ CallWriteBlock

SpecMemory == InitMemory /\ [][NextMemory]_vars

(***************************************************************************)
(* NPUDriver                                                               *)
(***************************************************************************)
ADDR_WEIGHTS == 0

ADDR_BUF_A == 256

ADDR_BUF_B == 512

\* The default data_width of NPUDriver.
DriverDataWidth == 8

\* execute_program(self, program) takes one argument besides self.
ExecuteProgramParams == 1

\* run_inference calls self.ctrl.execute_program(program, layer_num).
ExecuteProgramArgs == 2

\* NPUDriver accepts any mem_depth: memories that end with buffer B and
\* memories that end where buffer B starts.
DriverConfigs ==
    {NPUConfig(n, DriverDataWidth, ADDR_BUF_B + n * n) : n \in 1..MaxN}
    \cup {NPUConfig(n, DriverDataWidth, ADDR_BUF_B) : n \in 1..MaxN}

\* The network inputs: all 10s and a progression.
DriverInputs(n) ==
    {[i \in 1..(n * n) |-> 10], [i \in 1..(n * n) |-> 20 * i]}

\* Network inputs one element short and one element long.
DriverInputsWrongLength(n) ==
    {[i \in 1..len |-> 10] : len \in {n * n - 1, n * n + 1}}

\* The layer descriptors of a network.
Layers(n) ==
    [weights : {ScaledIdentity(1, n), ScaledIdentity(2, n),
                [i \in 1..(n * n) |-> i]},
     scale : {One, Two}, zero_point : {0, 1}]

InitDriver ==
    /\ config \in DriverConfigs
    /\ mem = MemoryInit(config)
    /\ weights = ArrayInit(config)
    /\ ctrl = CtrlIdle(mem, weights)
    /\ dump = NoDump
    /\ call = NoCall
    /\ driver = NoDriver

\* The micro-program run_inference builds for a layer.
MicroProgram(layer, layer_num, current_src, current_dst) ==
    <<[op |-> "LOAD_WEIGHTS", addr |-> ADDR_WEIGHTS],
      [op |-> "MATMUL", src |-> current_src, dst |-> current_dst,
       scale |-> Get(layer, "scale", One),
       zero_point |-> Get(layer, "zero_point", 0), layer_id |-> layer_num]>>

\* The call of run_inference(input_data, layers) up to the loop: the input
\* is loaded into buffer A and the ping-pong pointers are set.
RunInference ==
    /\ driver.status = "Idle"
    /\ \E input_data \in DriverInputs(config.array_size)
                            \cup DriverInputsWrongLength(config.array_size),
          layers \in SeqsUpTo(Layers(config.array_size), MaxLayers) :
          LET r == load_data_to_ram(mem, ADDR_BUF_A, input_data)
          IN  /\ mem' = r.mem
              /\ driver' = [status |-> IF r.error = "None" THEN "Running"
                                       ELSE "Faulted",
                            error |-> r.error, input |-> input_data,
                            layers |-> layers, i |-> 0,
                            current_src |-> ADDR_BUF_A,
                            current_dst |-> ADDR_BUF_B,
                            emitted |-> <<>>, executed |-> 0,
                            result |-> <<>>, mem0 |-> mem]
    /\ UNCHANGED <<config, weights, ctrl, dump, call>>

\* One iteration of the loop of run_inference: the weights of layer i are
\* loaded, the micro-program is built and handed to execute_program, and the
\* buffers are swapped.  The call of execute_program raises TypeError when
\* the number of arguments is not the number of parameters.
DriverLayer ==
    /\ driver.status = "Running"
    /\ driver.i < Len(driver.layers)
    /\ LET layer   == driver.layers[driver.i + 1]
           ld      == load_data_to_ram(mem, ADDR_WEIGHTS, layer.weights)
           program == MicroProgram(layer, driver.i + 1, driver.current_src,
                                   driver.current_dst)
           run     == execute_program(program, config, ld.mem, weights, dump)
       IN  IF ld.error # "None"
           THEN /\ mem' = ld.mem
                /\ driver' = [driver EXCEPT !.status = "Faulted",
                                            !.error = ld.error]
                /\ UNCHANGED <<weights, dump>>
           ELSE IF ExecuteProgramArgs # ExecuteProgramParams
           THEN /\ mem' = ld.mem
                /\ driver' = [driver EXCEPT !.status = "Faulted",
                                            !.error = "TypeError",
                                            !.emitted = Append(@, program)]
                /\ UNCHANGED <<weights, dump>>
           ELSE /\ mem' = run.mem
                /\ weights' = run.weights
                /\ dump' = run.dump
                /\ driver' =
                     IF run.error # "None"
                     THEN [driver EXCEPT !.status = "Faulted",
                                         !.error = run.error,
                                         !.emitted = Append(@, program)]
                     ELSE [driver EXCEPT !.i = @ + 1,
                                         !.emitted = Append(@, program),
                                         !.executed = @ + 1,
                                         !.current_src = driver.current_dst,
                                         !.current_dst = driver.current_src]
    /\ UNCHANGED <<config, ctrl, call>>

\* The end of run_inference: the block at current_src is returned.
DriverReturn ==
    /\ driver.status = "Running"
    /\ driver.i >= Len(driver.layers)
    /\ driver' = [driver EXCEPT
                    !.status = "Returned",
                    !.result = read_block(mem, driver.current_src,
                                          config.array_size * config.array_size)]
    /\ UNCHANGED <<config, mem, weights, ctrl, dump, call>>

NextDriver == RunInference \/ DriverLayer \/ DriverReturn

SpecDriver == InitDriver /\ [][NextDriver]_vars

(***************************************************************************)
(* Whole calls of execute_program, one after the other, on the same        *)
(* memory and array, with data loaded into memory in between.              *)
(***************************************************************************)
InitRuns ==
    /\ config \in CtrlConfigs
    /\ mem = MemoryInit(config)
    /\ weights = ArrayInit(config)
    /\ ctrl = CtrlIdle(mem, weights)
    /\ dump = NoDump
    /\ call = [op |-> "none", runs |-> 0]
    /\ driver = NoDriver

\* The instructions of the programs run one after the other: the weights
\* are at address 0 and the input block right after them; a MATMUL writes
\* over the weight block, over its own source, over a block that starts
\* inside its source or over a block disjoint from both.
RunInstructions(cfg) ==
    LET b == cfg.array_size * cfg.array_size
    IN  {[op |-> "LOAD_WEIGHTS", addr |-> a] : a \in {0, b, 3 * b}}
        \cup {[op |-> "MATMUL", src |-> b, dst |-> t] :
                  t \in {0, b, b + cfg.array_size, 2 * b}}
        \cup {[op |-> "MATMUL", src |-> b, dst |-> b + 1, scale |-> Half,
               zero_point |-> 1]}
        \cup {[op |-> "HALT"]}

\* Programs of one instruction, and programs of two whose second
\* instruction is not a LOAD_WEIGHTS or is not reached.
RunPrograms(cfg) ==
    {<<i>> : i \in RunInstructions(cfg)}
    \cup {<<[op |-> "LOAD_WEIGHTS", addr |-> 0], i>> :
              i \in {j \in RunInstructions(cfg) : j.op = "MATMUL"}}
    \cup {<<[op |-> "HALT"], [op |-> "LOAD_WEIGHTS", addr |-> 0]>>}

\* A call of execute_program(program) from its first instruction to its
\* return or to the exception that leaves it.
CallExecuteProgram ==
    /\ call.runs < MaxRuns
    /\ \E program \in RunPrograms(config) :
          \E r \in {execute_program(program, config, mem, weights, dump)} :
             /\ mem' = r.mem
             /\ weights' = r.weights
             /\ dump' = r.dump
             /\ call' = [op |-> "execute_program", runs |-> call.runs + 1,
                         program |-> program, memPre |-> mem,
                         weightsPre |-> weights, error |-> r.error]
    /\ UNCHANGED <<config, ctrl, driver>>

\* Data loaded into memory between two calls.
LoadBetweenCalls ==
    /\ \E ld \in CtrlLoads(config.array_size) :
          LET r == load_data_to_ram(mem, ld.addr, ld.data)
          IN  mem' = r.mem
    /\ call' = [op |-> "load_data", runs |-> call.runs]
    /\ UNCHANGED <<config, weights, ctrl, dump, driver>>

NextRuns == LoadBetweenCalls \/ CallExecuteProgram

SpecRuns == InitRuns /\ [][NextRuns]_vars

(***************************************************************************)
(* Properties of the controller (specification Spec).                      *)
(***************************************************************************)
BlockSize == config.array_size * config.array_size

\* The zero-based index of the first HALT of a program, its length if none.
RECURSIVE FirstHaltFrom(_, _)
FirstHaltFrom(program, i) ==
    IF i >= Len(program) \/ program[i + 1].op = "HALT" THEN i
    ELSE FirstHaltFrom(program, i + 1)

FirstHalt(program) == FirstHaltFrom(program, 0)

\* The instructions of a sequence applied one after the other.
RECURSIVE ApplyAll(_, _, _, _, _)
ApplyAll(instrs, cfg, m, w, d) ==
    IF instrs = <<>> THEN [mem |-> m, weights |-> w, dump |-> d]
    ELSE LET r == ExecInstr(Head(instrs), cfg, m, w, d)
         IN  ApplyAll(Tail(instrs), cfg, r.mem, r.weights, r.dump)

\* The last instruction the controller executed, and whether it succeeded.
HasExecuted == ctrl.executed # <<>>

LastIndex == ctrl.executed[Len(ctrl.executed)]

LastInstr == ctrl.program[LastIndex + 1]

LastSucceeded == HasExecuted /\ ctrl.pc = LastIndex + 1

\* The word at the zero-based address a.
Word(m, a) == m[a + 1]

(* C1: no instruction positioned after the first HALT of a program is      *)
(* executed: the indices executed and the program counter never pass the   *)
(* first HALT, and when the run has halted at a HALT the memory and the    *)
(* weights are those left by the instructions before it, applied to the    *)
(* state at the call; in particular memory is as it was at the call when   *)
(* no MATMUL precedes the HALT.                                            *)
HaltStopsExecution ==
    LET h      == FirstHalt(ctrl.program)
        prefix == SubSeq(ctrl.program, 1, h)
        ref    == ApplyAll(prefix, config, ctrl.mem0, ctrl.weights0, NoDump)
    IN  /\ \A k \in 1..Len(ctrl.executed) : ctrl.executed[k] <= h
        /\ ctrl.pc <= h
        /\ (ctrl.status = "Halted" /\ h < Len(ctrl.program)) =>
              /\ mem = ref.mem
              /\ weights = ref.weights
              /\ (\A k \in 1..h : prefix[k].op # "MATMUL") => mem = ctrl.mem0

\* A run of [LOAD_WEIGHTS, HALT, MATMUL] has halted, and the MATMUL would
\* have changed memory.
HaltWitness ==
    /\ ctrl.status = "Halted"
    /\ Len(ctrl.program) = 3
    /\ ctrl.program[1].op = "LOAD_WEIGHTS"
    /\ ctrl.program[2].op = "HALT"
    /\ ctrl.program[3].op = "MATMUL"
    /\ ExecMatmul(ctrl.program[3], config, mem, weights, dump).error = "None"
    /\ ExecMatmul(ctrl.program[3], config, mem, weights, dump).mem # mem

(* C2: a MATMUL whose destination block does not lie entirely inside       *)
(* memory (dst + N^2 > D) faults and leaves every memory word as it was    *)
(* before the instruction.                                                 *)
MatmulDstFaultMutatesNothing ==
    (/\ HasExecuted
     /\ LastInstr.op = "MATMUL"
     /\ LastInstr.dst + BlockSize > config.mem_depth)
    => (ctrl.status = "Faulted" /\ mem = ctrl.memPre)

(* C3: an instruction whose opcode is none of LOAD_WEIGHTS, MATMUL, HALT   *)
(* makes the run fail with UnknownOpcode: it is the last instruction       *)
(* executed and the controller is Faulted.                                 *)
UnknownOpcodeFaults ==
    \A k \in 1..Len(ctrl.executed) :
        ctrl.program[ctrl.executed[k] + 1].op
            \notin {"LOAD_WEIGHTS", "MATMUL", "HALT"}
        => /\ k = Len(ctrl.executed)
           /\ ctrl.status = "Faulted"
           /\ ctrl.error = "UnknownOpcode"

\* The exception that leaves execute_program: the one the failing
\* instruction raised, as execute_program has no handler.
Propagated ==
    [type |-> ctrl.error,
     args |-> ExceptionArgs(LastInstr, config, ctrl.memPre)]

(* C17: when an instruction fails with a bounds or dimension error, the    *)
(* failure reported to the caller of execute_program carries the index of  *)
(* the failing instruction in the program and its opcode.                  *)
FaultIdentifiesInstruction ==
    ctrl.status = "Faulted" =>
        /\ {"index", "op"} \subseteq DOMAIN Propagated
        /\ Propagated.index = ctrl.pc
        /\ Propagated.op = ctrl.program[ctrl.pc + 1].op

(* C18: once the instruction at index p has faulted, no instruction with   *)
(* an index greater than p is executed in that run: the run is Faulted,    *)
(* the indices executed are 0..p, and memory and weights are those left by *)
(* the instructions 0..p-1 followed by what instruction p did before it    *)
(* failed.                                                                 *)
FaultStopsExecution ==
    ctrl.error # "None" =>
        /\ ctrl.status = "Faulted"
        /\ ctrl.executed = [k \in 1..(ctrl.pc + 1) |-> k - 1]
        /\ LET before == ApplyAll(SubSeq(ctrl.program, 1, ctrl.pc), config,
                                  ctrl.mem0, ctrl.weights0, NoDump)
               r      == ExecInstr(ctrl.program[ctrl.pc + 1], config,
                                   before.mem, before.weights, before.dump)
           IN  /\ before.mem = ctrl.memPre
               /\ r.error = ctrl.error
               /\ mem = r.mem
               /\ weights = r.weights

\* A MATMUL that is not the last instruction faulted after it wrote a part
\* of its block, and the instruction after it would have changed memory or
\* the weights.
FaultWitness ==
    /\ ctrl.status = "Faulted"
    /\ ctrl.pc >= 1
    /\ ctrl.pc + 1 < Len(ctrl.program)
    /\ mem # ctrl.memPre
    /\ LET r == ExecInstr(ctrl.program[ctrl.pc + 2], config, mem, weights, dump)
       IN  r.mem # mem \/ r.weights # weights

\* The state the instructions before the last one executed left.
Before ==
    ApplyAll(SubSeq(ctrl.program, 1, LastIndex), config, ctrl.mem0,
             ctrl.weights0, NoDump)

\* The N^2 words of m from the address a >= 0 on.
Block(m, a) == [i \in 1..BlockSize |-> Word(m, a + i - 1)]

\* The row-major reshaping of a flat sequence of N^2 elements.
Reshape(flat) ==
    [r \in 1..config.array_size |-> [c \in 1..config.array_size |->
        flat[(r - 1) * config.array_size + (c - 1) + 1]]]

(* C24: a successful LOAD_WEIGHTS{addr} leaves the row-major reshaping of  *)
(* the block at addr, W[r][c] = mem[addr + r*N + c], whatever the weights  *)
(* were; executed a second time on unchanged memory it leaves the same     *)
(* weight matrix as the first time.                                        *)
LoadWeightsIdempotent ==
    (LastSucceeded /\ LastInstr.op = "LOAD_WEIGHTS" /\ LastInstr.addr >= 0)
    => /\ weights = Reshape(Block(mem, LastInstr.addr))
       /\ \A r, c \in 0..(config.array_size - 1) :
             weights[r + 1][c + 1] =
                 Word(mem, LastInstr.addr + r * config.array_size + c)
       /\ (/\ LastIndex >= 1
            /\ ctrl.program[LastIndex] = LastInstr
            /\ Before.mem = mem)
           => weights = Before.weights

\* LOAD_WEIGHTS was executed twice in a row on a block that is not
\* symmetric, for N >= 2.
LoadWeightsWitness ==
    /\ LastSucceeded
    /\ LastInstr.op = "LOAD_WEIGHTS"
    /\ LastIndex >= 1
    /\ ctrl.program[LastIndex] = LastInstr
    /\ config.array_size >= 2
    /\ weights[1][2] # weights[2][1]
    /\ weights # ctrl.weights0

(* C25: a successful MATMUL{src, dst, scale, zeroPoint} with src, dst >= 0 *)
(* changes exactly the dst block: afterwards that block holds the          *)
(* quantized tensor PPU(run_matmul(block at src before the instruction)),  *)
(* every word outside it and the weights are unchanged, and it is the      *)
(* quantized tensor, not the raw or the activated one, that is in memory.  *)
MatmulChangesOnlyDst ==
    (/\ LastSucceeded
     /\ LastInstr.op = "MATMUL"
     /\ LastInstr.src >= 0
     /\ LastInstr.dst >= 0)
    => LET acc == run_matmul(Before.weights, config.array_size,
                             Block(ctrl.memPre, LastInstr.src)).out
           q   == process(acc, Get(LastInstr, "scale", One),
                          Get(LastInstr, "zero_point", 0),
                          config.max_val).quantized
       IN  /\ Block(mem, LastInstr.dst) = q
           /\ dump.final = q
           /\ \A a \in 0..(config.mem_depth - 1) :
                 (a < LastInstr.dst \/ a >= LastInstr.dst + BlockSize)
                 => Word(mem, a) = Word(ctrl.memPre, a)
           /\ weights = Before.weights

\* A MATMUL has succeeded whose raw, activated and quantized tensors are
\* three different tensors, on a memory with other words outside the dst
\* block and with weights loaded before.
MatmulFrameWitness ==
    /\ LastSucceeded
    /\ LastInstr.op = "MATMUL"
    /\ LastInstr.src >= 0
    /\ LastInstr.dst >= 0
    /\ dump.raw # dump.activated
    /\ dump.activated # dump.final
    /\ mem # ctrl.memPre
    /\ weights # ArrayInit(config)
    /\ \E a \in 0..(config.mem_depth - 1) :
          (a < LastInstr.dst \/ a >= LastInstr.dst + BlockSize)
          /\ Word(mem, a) # 0

(* C29: a MATMUL that omits the scale and zero_point fields behaves like   *)
(* the same instruction with scale = 1.0 and zero_point = 0: on the same   *)
(* memory and weights both leave the same memory, hence the same dst block.*)
DefaultsAreUnitScale ==
    (/\ HasExecuted
     /\ LastInstr.op = "MATMUL"
     /\ "scale" \notin DOMAIN LastInstr
     /\ "zero_point" \notin DOMAIN LastInstr)
    => LET explicit == [op |-> "MATMUL", src |-> LastInstr.src,
                        dst |-> LastInstr.dst, scale |-> One,
                        zero_point |-> 0]
           r        == ExecMatmul(explicit, config, ctrl.memPre,
                                  Before.weights, Before.dump)
       IN  /\ mem = r.mem
           /\ weights = r.weights
           /\ dump = r.dump
           /\ ctrl.error = r.error

\* Such a MATMUL has succeeded with a result that is not all zero and that
\* another default scale would not have given.
DefaultsWitness ==
    /\ LastSucceeded
    /\ LastInstr.op = "MATMUL"
    /\ "scale" \notin DOMAIN LastInstr
    /\ "zero_point" \notin DOMAIN LastInstr
    /\ \E i \in 1..Len(dump.final) : dump.final[i] # 0
    /\ process(dump.raw, Half, 0, config.max_val).quantized # dump.final
    /\ Block(mem, LastInstr.dst) = dump.final

\* The indices executed are 0, 1, 2, ... in this order; a running loop is at
\* the index after them, a halted one at the first HALT or at the end of
\* the stream, a faulted one at the instruction that raised.
InOrder ==
    /\ ctrl.executed = [k \in 1..Len(ctrl.executed) |-> k - 1]
    /\ ctrl.status = "Running" => ctrl.pc = Len(ctrl.executed)
    /\ ctrl.status = "Halted" => ctrl.pc = FirstHalt(ctrl.program)
    /\ ctrl.status = "Faulted" =>
          /\ ctrl.error # "None"
          /\ ctrl.pc < FirstHalt(ctrl.program)
          /\ Len(ctrl.executed) = ctrl.pc + 1

(* C27: execute_program starts at PC 0 and executes the instructions one   *)
(* at a time in increasing index order, each at most once, and every run   *)
(* terminates: Halted at the first HALT, or after the last instruction     *)
(* when the program has no HALT, or Faulted at the first fault.            *)
InOrderAndTerminates ==
    /\ []InOrder
    /\ (ctrl.status = "Running") ~> (ctrl.status \in {"Halted", "Faulted"})

\* A program of two instructions or more without HALT has run to the end
\* of the stream.
EndOfStreamWitness ==
    /\ ctrl.status = "Halted"
    /\ Len(ctrl.program) >= 2
    /\ FirstHalt(ctrl.program) = Len(ctrl.program)
    /\ Len(ctrl.executed) = Len(ctrl.program)

\* The instruction of a call whose program is a single instruction.
OnlyInstr == call.program[1]

\* The call loads weights: its first instruction is a LOAD_WEIGHTS of a
\* whole block of the memory m.
LoadsWeights(program, m) ==
    /\ program[1].op = "LOAD_WEIGHTS"
    /\ program[1].addr >= 0
    /\ program[1].addr + BlockSize <= Len(m)

(* C26: the stationary weights change only by a successful LOAD_WEIGHTS:   *)
(* a call of execute_program whose LOAD_WEIGHTS{addr} succeeds leaves      *)
(* W[r][c] = mem[addr + r*N + c] as memory was at that moment; every other  *)
(* step (a call whose MATMUL writes anywhere, the weight block included, a  *)
(* call whose LOAD_WEIGHTS fails or is not reached, data loaded into        *)
(* memory) leaves the weights as they were, across separate calls.  The     *)
(* programs run have their LOAD_WEIGHTS, if any, as first instruction or     *)
(* after a HALT.                                                           *)
WeightsHeldUntilLoad ==
    [][IF call'.op = "execute_program" /\ LoadsWeights(call'.program, mem)
       THEN weights' = Reshape(Block(mem, call'.program[1].addr))
       ELSE weights' = weights]_vars

\* In a call of its own, after weights were loaded, a MATMUL has written
\* over the block the weights were loaded from: the array still holds the
\* weights loaded and memory no longer does.
WeightsHeldWitness ==
    /\ call.op = "execute_program"
    /\ call.runs >= 2
    /\ call.error = "None"
    /\ Len(call.program) = 1
    /\ OnlyInstr.op = "MATMUL"
    /\ OnlyInstr.dst = 0
    /\ weights = call.weightsPre
    /\ weights = Reshape(Block(call.memPre, 0))
    /\ weights # ArrayInit(config)
    /\ weights # Reshape(Block(mem, 0))

\* The blocks at src and dst share a word.
Overlap(instr) ==
    /\ instr.src >= 0
    /\ instr.dst >= 0
    /\ instr.dst < instr.src + BlockSize
    /\ instr.src < instr.dst + BlockSize

\* An address whose block is disjoint from the block at src.
Away(instr) == IF instr.src >= BlockSize THEN 0 ELSE instr.src + BlockSize

(* C30: a successful MATMUL whose src and dst blocks are equal or overlap  *)
(* leaves in the dst block PPU(run_matmul(the src block as it was before    *)
(* the instruction)), the values the same MATMUL writes to a destination    *)
(* disjoint from the source.                                               *)
OverlapUsesSnapshot ==
    (/\ call.op = "execute_program"
     /\ Len(call.program) = 1
     /\ OnlyInstr.op = "MATMUL"
     /\ call.error = "None"
     /\ Overlap(OnlyInstr))
    => LET acc   == run_matmul(call.weightsPre, config.array_size,
                               Block(call.memPre, OnlyInstr.src)).out
           q     == process(acc, Get(OnlyInstr, "scale", One),
                            Get(OnlyInstr, "zero_point", 0),
                            config.max_val).quantized
           other == execute_program(<<[OnlyInstr EXCEPT !.dst = Away(OnlyInstr)]>>,
                                    config, call.memPre, call.weightsPre,
                                    NoDump)
       IN  /\ Block(mem, OnlyInstr.dst) = q
           /\ other.error = "None"
           /\ Block(other.mem, Away(OnlyInstr)) = q

\* A MATMUL has written a block that starts inside its source block, with
\* weights loaded, and has changed words of the source; computed in place,
\* element after element from the memory being written, the result would
\* be another.
OverlapWitness ==
    /\ call.op = "execute_program"
    /\ Len(call.program) = 1
    /\ OnlyInstr.op = "MATMUL"
    /\ call.error = "None"
    /\ Overlap(OnlyInstr)
    /\ OnlyInstr.dst # OnlyInstr.src
    /\ call.weightsPre # ArrayInit(config)
    /\ Block(mem, OnlyInstr.src) # Block(call.memPre, OnlyInstr.src)
    /\ \E i \in 1..BlockSize : Block(call.memPre, OnlyInstr.src)[i] # 0
    /\ \E i \in 1..BlockSize : Block(mem, OnlyInstr.dst)[i] # 0
    /\ InPlaceLoop(OnlyInstr, config, call.memPre, call.weightsPre, 0) # mem

(* C7: every element of the quantized tensor the PPU returns lies in       *)
(* [0, 2^W - 1], and after a successful MATMUL so does every word of the   *)
(* dst block.                                                              *)
QuantizedInRange ==
    /\ \A i \in 1..Len(dump.final) :
          dump.final[i] >= 0 /\ dump.final[i] <= Pow2(config.data_width) - 1
    /\ (LastSucceeded /\ LastInstr.op = "MATMUL") =>
          \A i \in 0..(BlockSize - 1) :
              LET a == PyIndex(Len(mem), LastInstr.dst + i)
              IN  Word(mem, a) >= 0
                  /\ Word(mem, a) <= Pow2(config.data_width) - 1

\* A MATMUL has succeeded in which one element was saturated from above
\* and another from below.
QuantizedInRangeWitness ==
    /\ LastSucceeded
    /\ LastInstr.op = "MATMUL"
    /\ \E i, j \in 1..Len(dump.activated) :
          /\ Requantize(dump.activated[i], Get(LastInstr, "scale", One),
                        Get(LastInstr, "zero_point", 0)) > config.max_val
          /\ Requantize(dump.activated[j], Get(LastInstr, "scale", One),
                        Get(LastInstr, "zero_point", 0)) < 0

(***************************************************************************)
(* Properties of the driver (specification SpecDriver).                    *)
(***************************************************************************)
\* x_k of a network: x_0 is the input and x_k the quantized product of
\* x_(k-1) and the weights of layer k.
RECURSIVE LayerOutput(_, _, _, _)
LayerOutput(input, layers, k, cfg) ==
    IF k = 0 THEN input
    ELSE LET layer == layers[k]
             w     == load_weights(ArrayInit(cfg), cfg.array_size,
                                   layer.weights).weights
             acc   == run_matmul(w, cfg.array_size,
                                 LayerOutput(input, layers, k - 1, cfg)).out
         IN  process(acc, layer.scale, layer.zero_point, cfg.max_val).quantized

DriverEnded == driver.status \in {"Returned", "Faulted"}

(* C4: run_inference on an input of N^2 words and L >= 1 layers of N^2     *)
(* weights each completes without fault and returns x_L.                   *)
InferenceReturnsLastLayer ==
    (/\ DriverEnded
     /\ Len(driver.layers) >= 1
     /\ Len(driver.input) = BlockSize
     /\ \A k \in 1..Len(driver.layers) :
           Len(driver.layers[k].weights) = BlockSize)
    => /\ driver.status = "Returned"
       /\ driver.result = LayerOutput(driver.input, driver.layers,
                                      Len(driver.layers), config)

\* The MATMUL of the micro-program emitted for layer k (from 1).
EmittedMatmul(k) == driver.emitted[k][2]

(* C5: every layer of a network gets a micro-program whose MATMUL has      *)
(* src # dst, both in {buffer A, buffer B}; layer 1 reads buffer A, the    *)
(* src of layer k+1 is the dst of layer k, and each MATMUL is executed, so *)
(* that each layer reads the block written by the MATMUL of the layer      *)
(* before it.                                                              *)
PingPongChain ==
    (DriverEnded /\ Len(driver.layers) >= 1)
    => /\ Len(driver.emitted) = Len(driver.layers)
       /\ driver.executed = Len(driver.layers)
       /\ \A k \in 1..Len(driver.emitted) :
             /\ EmittedMatmul(k).src # EmittedMatmul(k).dst
             /\ {EmittedMatmul(k).src, EmittedMatmul(k).dst}
                   \subseteq {ADDR_BUF_A, ADDR_BUF_B}
             /\ k = 1 => EmittedMatmul(k).src = ADDR_BUF_A
             /\ k > 1 => EmittedMatmul(k).src = EmittedMatmul(k - 1).dst

(* C19: run_inference called with an input whose length is not N^2 fails   *)
(* with the dimension error before it writes anything to memory and before *)
(* it builds or executes the micro-program of any layer.                   *)
InputLengthValidated ==
    (driver.status # "Idle" /\ Len(driver.input) # BlockSize)
    => /\ driver.status = "Faulted"
       /\ driver.error = "ValueError"
       /\ mem = driver.mem0
       /\ driver.emitted = <<>>
       /\ driver.executed = 0

\* The exception that leaves run_inference when the call of execute_program
\* raises: that exception, as the loop has no handler.
DriverPropagated ==
    [type |-> driver.error,
     args |-> <<"execute_program() takes positional arguments but were given",
                ExecuteProgramParams + 1, ExecuteProgramArgs + 1>>]

(* C20: when the call of the controller for layer k faults, run_inference  *)
(* fails at once with an error that carries the index k: no micro-program  *)
(* of a later layer is built or executed and no result is returned.        *)
LayerFaultAnnotated ==
    (driver.status = "Faulted" /\ driver.emitted # <<>>)
    => /\ "layer" \in DOMAIN DriverPropagated
       /\ DriverPropagated.layer = driver.i + 1
       /\ Len(driver.emitted) = driver.i + 1
       /\ driver.executed = driver.i
       /\ driver.result = <<>>

\* The start addresses of the three regions of the memory map.
Regions == {ADDR_WEIGHTS, ADDR_BUF_A, ADDR_BUF_B}

(* C21: for every configuration an NPUDriver is constructed with, the      *)
(* three N^2-word regions of its memory map (weight staging, buffer A,     *)
(* buffer B) are pairwise disjoint and each lies inside [0, D).            *)
MemoryMapFits ==
    /\ \A a \in Regions : a >= 0 /\ a + BlockSize <= config.mem_depth
    /\ \A a, b \in Regions :
          a # b => (a + BlockSize <= b \/ b + BlockSize <= a)

(* C28: run_inference returns the N^2 words of the buffer that received    *)
(* the write of the last layer: buffer B when the number of layers is odd, *)
(* buffer A when it is even and positive; with no layer it returns the     *)
(* contents of buffer A, the input itself.                                 *)
ResultBufferByParity ==
    (DriverEnded /\ Len(driver.input) = BlockSize)
    => /\ driver.status = "Returned"
       /\ driver.executed = Len(driver.layers)
       /\ driver.result =
              read_block(mem, IF Len(driver.layers) % 2 = 1 THEN ADDR_BUF_B
                              ELSE ADDR_BUF_A, BlockSize)
       /\ Len(driver.layers) = 0 => driver.result = driver.input

(***************************************************************************)
(* Properties of PPU.process (specification SpecPPU).                      *)
(***************************************************************************)
Processed == call.op = "process"

(* C22: a configuration with N < 1, W < 1 or D < N^2 cannot be             *)
(* constructed, so every PPU (and Memory, SystolicArray, Controller) that  *)
(* exists has a configuration with N >= 1, W >= 1 and D >= N^2.            *)
ConfigValidated ==
    /\ config.array_size >= 1
    /\ config.data_width >= 1
    /\ config.mem_depth >= config.array_size * config.array_size

(* C23: process with scale = 0 does not fail and skips the division: each  *)
(* quantized element is clamp(max(x, 0) + zeroPoint, 0, 2^W - 1), and the  *)
(* result is the one scale = 1.0 gives.                                    *)
ZeroScaleSkipsDivision ==
    (Processed /\ call.scale.num = 0) =>
        /\ Len(call.result.quantized) = Len(call.data)
        /\ \A i \in 1..Len(call.data) :
              call.result.quantized[i] =
                  Max(0, Min(Max(call.data[i], 0) + call.zero_point,
                             Pow2(config.data_width) - 1))
        /\ call.result = process(call.data, One, call.zero_point,
                                 config.max_val)

\* A call with scale 0 and a nonzero zero point in which the first element
\* is quantized without saturation and the second is saturated.
ZeroScaleWitness ==
    /\ Processed
    /\ call.scale.num = 0
    /\ call.zero_point # 0
    /\ Len(call.data) = 2
    /\ call.data[1] > 0
    /\ call.result.quantized[1] = call.data[1] + call.zero_point
    /\ call.data[2] + call.zero_point > config.max_val
    /\ call.result.quantized[2] = config.max_val

(* C6: for a nonzero scale the quantized element is                        *)
(* clamp(round(max(x, 0) / scale) + zeroPoint, 0, 2^W - 1): the quotient   *)
(* is rounded half-to-even first and the zero point is added afterwards.   *)
ZeroPointAddedAfterRounding ==
    (Processed /\ call.scale.num # 0) =>
        \A i \in 1..Len(call.data) :
            call.result.quantized[i] =
                Max(0, Min(RoundHalfEven(Max(call.data[i], 0) * call.scale.den,
                                         call.scale.num) + call.zero_point,
                           Pow2(config.data_width) - 1))

\* scale is positive and at most 1.
ScaleAtMostOne(scale) == scale.num > 0 /\ scale.num <= scale.den

(* C8 as stated: an element whose activated value is greater than 2^W - 1  *)
(* has the quantized value 2^W - 1, and a value that falls below 0 is      *)
(* reported as 0.                                                          *)
ClampingOfActivated ==
    Processed =>
        \A i \in 1..Len(call.data) :
            /\ call.result.activated[i] > Pow2(config.data_width) - 1
                 => call.result.quantized[i] = Pow2(config.data_width) - 1
            /\ Requantize(call.result.activated[i], call.scale,
                          call.zero_point) < 0
                 => call.result.quantized[i] = 0

(* C8 amended: an element whose activated value is greater than 2^W - 1    *)
(* has the quantized value 2^W - 1 when the scale is 0 or in (0, 1] and the*)
(* zero point is not negative; a value that falls below 0 after the        *)
(* scaling and the zero-point shift is reported as 0.                      *)
ClampingOfScaledValue ==
    Processed =>
        \A i \in 1..Len(call.data) :
            /\ (/\ call.result.activated[i] > Pow2(config.data_width) - 1
                 /\ (call.scale.num = 0 \/ ScaleAtMostOne(call.scale))
                 /\ call.zero_point >= 0)
                 => call.result.quantized[i] = Pow2(config.data_width) - 1
            /\ Requantize(call.result.activated[i], call.scale,
                          call.zero_point) < 0
                 => call.result.quantized[i] = 0

\* An activated value above 2^W - 1 was processed with a scale below 1 and
\* a positive zero point.
ClampingWitness ==
    /\ Processed
    /\ call.result.activated[1] > Pow2(config.data_width) - 1
    /\ call.scale = Half
    /\ call.zero_point > 0
    /\ call.result.quantized[1] = Pow2(config.data_width) - 1

(* C9: with scale 1.0 and zero point 0 a sequence of non-negative integers *)
(* is returned unchanged as activated, and quantized[i] is                 *)
(* min(input[i], 2^W - 1).                                                 *)
UnitScaleRoundTrip ==
    (/\ Processed
     /\ call.scale = One
     /\ call.zero_point = 0
     /\ \A i \in 1..Len(call.data) : call.data[i] >= 0)
    => /\ call.result.activated = call.data
       /\ Len(call.result.quantized) = Len(call.data)
       /\ \A i \in 1..Len(call.data) :
             call.result.quantized[i] =
                 Min(call.data[i], Pow2(config.data_width) - 1)

\* Such a call with one element inside [1, 2^W - 1] and one above it.
UnitScaleWitness ==
    /\ Processed
    /\ call.scale = One
    /\ call.zero_point = 0
    /\ Len(call.data) = 2
    /\ call.data[1] >= 1
    /\ call.data[1] <= Pow2(config.data_width) - 1
    /\ call.data[2] > Pow2(config.data_width) - 1
    /\ call.result.quantized = <<call.data[1], Pow2(config.data_width) - 1>>

(***************************************************************************)
(* Properties of SystolicArray (specification SpecArray).                  *)
(***************************************************************************)
\* f[0] + ... + f[n-1]
RECURSIVE SumBelow(_, _)
SumBelow(f, n) == IF n = 0 THEN 0 ELSE SumBelow(f, n - 1) + f[n - 1]

(* C10: run_matmul on an input of length N^2 returns the row-major         *)
(* flattening of input x W: out[i*N + j] is the sum over k of              *)
(* input[i*N + k] * W[k][j], neither clamped nor wrapped.                  *)
MatmulIsMatrixProduct ==
    (call.op = "run_matmul" /\ Len(call.arg) = BlockSize) =>
        LET n == config.array_size
        IN  /\ call.error = "None"
            /\ Len(call.out) = n * n
            /\ \A i, j \in 0..(n - 1) :
                  Word(call.out, i * n + j) =
                      SumBelow([k \in 0..(n - 1) |->
                                   Word(call.arg, i * n + k)
                                   * weights[k + 1][j + 1]], n)

\* A product by an asymmetric weight matrix with one accumulator above
\* 2^W - 1 and one below 0.
MatmulWitness ==
    /\ call.op = "run_matmul"
    /\ config.array_size >= 2
    /\ weights[1][2] # weights[2][1]
    /\ \E i, j \in 1..Len(call.out) :
          call.out[i] > config.max_val /\ call.out[j] < 0

(* C11: when the stationary weights are the N x N identity matrix, loaded  *)
(* row-major, run_matmul returns its input of length N^2 unchanged, also   *)
(* when entries are negative or above 2^W - 1.                             *)
IdentityReturnsInput ==
    (/\ call.op = "run_matmul"
     /\ Len(call.arg) = BlockSize
     /\ weights = load_weights(ArrayInit(config), config.array_size,
                               ScaledIdentity(1, config.array_size)).weights)
    => (call.error = "None" /\ call.out = call.arg)

\* An input with a negative entry and an entry above 2^W - 1 was multiplied
\* by the 2 x 2 identity (or a larger one).
IdentityWitness ==
    /\ call.op = "run_matmul"
    /\ config.array_size >= 2
    /\ \A r, c \in 1..config.array_size :
          weights[r][c] = IF r = c THEN 1 ELSE 0
    /\ \E i, j \in 1..Len(call.arg) :
          call.arg[i] > config.max_val /\ call.arg[j] < 0
    /\ call.out = call.arg

(* C16: load_weights called with a sequence whose length is not N^2 fails  *)
(* with ValueError (the dimension mismatch) and leaves the weight matrix   *)
(* as it was before the call; run_matmul called with an input whose length *)
(* is not N^2 fails likewise and returns no result.                        *)
DimensionMismatchRejected ==
    [][/\ (call'.op = "load_weights" /\ Len(call'.arg) # BlockSize)
            => (call'.error = "ValueError" /\ weights' = weights)
       /\ (call'.op = "run_matmul" /\ Len(call'.arg) # BlockSize)
            => (call'.error = "ValueError" /\ call'.out = <<>>)]_vars

\* A sequence one element too long was refused by load_weights while the
\* array held weights loaded before.
DimensionMismatchWitness ==
    /\ call.op = "load_weights"
    /\ Len(call.arg) = BlockSize + 1
    /\ call.error = "ValueError"
    /\ weights # ArrayInit(config)

(***************************************************************************)
(* Properties of Memory (specification SpecMemory).                        *)
(***************************************************************************)
MemCall == call.op \in {"load", "read_block", "write_block"}

\* The length of the block of the last memory call.
CallLen == IF call.op = "read_block" THEN call.size ELSE Len(call.data)

\* The block of the last memory call lies inside memory.
InBounds == call.addr >= 0 /\ call.addr + CallLen <= config.mem_depth

\* The words outside the block of the last memory call are as before it.
OutsideUnchanged ==
    \A a \in 0..(config.mem_depth - 1) :
        (a < call.addr \/ a >= call.addr + CallLen)
        => Word(mem, a) = Word(call.memPre, a)

(* C12: read_block, write_block and load of a block that is not empty,     *)
(* with a start address outside [0, D) or with a block that crosses the    *)
(* end of memory, fail with an error, return nothing, and leave every word *)
(* outside the requested block as it was: no address wraps around.         *)
NoWrapAround ==
    (/\ MemCall
     /\ CallLen > 0
     /\ (call.addr < 0 \/ call.addr >= config.mem_depth
            \/ call.addr + CallLen > config.mem_depth))
    => /\ call.error # "None"
       /\ OutsideUnchanged
       /\ call.op = "read_block" => call.out = <<>>

(* C13: read_block(addr, size) of size > 0 words fails whenever            *)
(* addr + size > D and returns no truncated sequence; when the block is in *)
(* bounds it returns the size words mem[addr], ..., mem[addr + size - 1];  *)
(* memory is unchanged.                                                    *)
ReadBlockChecksBounds ==
    call.op = "read_block" =>
        /\ mem = call.memPre
        /\ (call.size > 0 /\ call.addr + call.size > config.mem_depth)
             => (call.error # "None" /\ call.out = <<>>)
        /\ InBounds
             => /\ call.error = "None"
                /\ call.out = [i \in 1..call.size |->
                                  Word(call.memPre, call.addr + i - 1)]

(* C14: a load of values at a startAddr >= 0 fails if and only if          *)
(* startAddr + len(values) > D; when it succeeds every address             *)
(* startAddr + i is an address of memory that holds values[i], and every   *)
(* other word is unchanged.                                                *)
LoadFailsIffOverflow ==
    (call.op = "load" /\ call.addr >= 0) =>
        /\ call.error # "None" <=> call.addr + Len(call.data) > config.mem_depth
        /\ call.error = "None" =>
              /\ \A i \in 0..(Len(call.data) - 1) :
                    /\ call.addr + i \in 0..(config.mem_depth - 1)
                    /\ Word(mem, call.addr + i) = call.data[i + 1]
              /\ OutsideUnchanged

(* C15: an in-bounds write_block(addr, values) stores the values verbatim, *)
(* also those that are negative or above 2^W - 1: afterwards               *)
(* mem[addr + i] = values[i] for every i and every word outside            *)
(* [addr, addr + len(values)) is unchanged.                                *)
WriteBlockVerbatim ==
    (call.op = "write_block" /\ InBounds) =>
        /\ call.error = "None"
        /\ \A i \in 0..(Len(call.data) - 1) :
              Word(mem, call.addr + i) = call.data[i + 1]
        /\ OutsideUnchanged

\* An in-bounds write of a negative value and of a value above 2^W - 1
\* over a memory that held other words, inside and outside the block.
WriteBlockWitness ==
    /\ call.op = "write_block"
    /\ InBounds
    /\ \E i, j \in 1..Len(call.data) :
          call.data[i] < 0 /\ call.data[j] > config.max_val
    /\ \E a \in 0..(config.mem_depth - 1) :
          (a < call.addr \/ a >= call.addr + CallLen) /\ Word(mem, a) # 0
    /\ \E i \in 0..(Len(call.data) - 1) :
          Word(call.memPre, call.addr + i) \notin {0, call.data[i + 1]}


(* C31: a load at a startAddr >= 0 that raises the overflow error is not    *)
(* atomic: startAddr + len(values) > D, the words startAddr..D-1 hold the   *)
(* first D - startAddr values, and the words below startAddr are as they    *)
(* were before the load.                                                   *)
OverflowingLoadIsPartial ==
    (call.op = "load" /\ call.error = "ValueError" /\ call.addr >= 0) =>
        /\ call.addr + Len(call.data) > config.mem_depth
        /\ \A a \in 0..(config.mem_depth - 1) :
              Word(mem, a) = IF a >= call.addr
                             THEN call.data[a - call.addr + 1]
                             ELSE Word(call.memPre, a)

\* A load has raised the overflow error after it changed a word, on a
\* memory with a word below startAddr that earlier calls had written.
OverflowingLoadWitness ==
    /\ call.op = "load"
    /\ call.error = "ValueError"
    /\ call.addr >= 0
    /\ mem # call.memPre
    /\ \E a \in 0..(call.addr - 1) : Word(mem, a) # 0


(***************************************************************************)
(* The array before any weights are loaded (specification Spec).           *)
(***************************************************************************)
\* The last instruction executed is a MATMUL with no LOAD_WEIGHTS executed
\* before it, whose src and dst blocks lie inside memory.
MatmulBeforeAnyLoad ==
    /\ HasExecuted
    /\ LastInstr.op = "MATMUL"
    /\ \A k \in 1..LastIndex : ctrl.program[k].op # "LOAD_WEIGHTS"
    /\ LastInstr.src >= 0
    /\ LastInstr.src + BlockSize <= config.mem_depth
    /\ LastInstr.dst >= 0
    /\ LastInstr.dst + BlockSize <= config.mem_depth

\* clamp(round(zero_point), 0, 2^W - 1) for an integer zero_point.
ClampedZeroPoint(instr) ==
    LET zp == Get(instr, "zero_point", 0)
        top == Pow2(config.data_width) - 1
    IN  IF zp < 0 THEN 0 ELSE IF zp > top THEN top ELSE zp

(* C32: a MATMUL with src and dst blocks inside memory, executed before    *)
(* any LOAD_WEIGHTS on a freshly constructed array, does not fault and      *)
(* leaves clamp(round(zero_point), 0, 2^W - 1) in every word of the dst     *)
(* block, whatever the source block holds.                                 *)
ZeroWeightsGiveZeroPoint ==
    MatmulBeforeAnyLoad =>
        /\ LastSucceeded
        /\ ctrl.error = "None"
        /\ \A i \in 0..(BlockSize - 1) :
              Word(mem, LastInstr.dst + i) = ClampedZeroPoint(LastInstr)

\* Such a MATMUL has run on a source block with a positive word and has
\* left a zero point other than 0 in the dst block.
ZeroWeightsWitness ==
    /\ MatmulBeforeAnyLoad
    /\ LastSucceeded
    /\ \E i \in 0..(BlockSize - 1) : Word(ctrl.memPre, LastInstr.src + i) > 0
    /\ ClampedZeroPoint(LastInstr) # 0
    /\ Word(mem, LastInstr.dst) # Word(ctrl.memPre, LastInstr.dst)

=============================================================================
